---------------------------- MODULE Spec2Model ----------------------------
(***************************************************************************)
(* Career Combination Explorer (src/career_explorer.py).                   *)
(*                                                                         *)
(* A Python str is a sequence of one-character strings, so that split,     *)
(* strip, lower and the substring test are computed, not assumed.  A float *)
(* is an exact rational [n, d] in lowest terms with d > 0: IEEE-754         *)
(* rounding is not modelled.  A slider value is held in tenths (the slider *)
(* step is 0.1), so 10 is 1.0 and 30 is 3.0.                                *)
(***************************************************************************)
EXTENDS Integers, Sequences, FiniteSets, TLC

VARIABLES
    use_default,        \* checkbox "Mostra interessi suggeriti"
    selected_defaults,  \* value of the multiselect (list of str)
    custom_text,        \* value of the text input (str)
    sliders,            \* widget state of the "Peso <i>" sliders, in tenths
    keys,               \* keystrokes typed into the text input so far
    pc,                 \* position of the script run
    interests,          \* merged interest list
    info,               \* st.info("Inserisci almeno un interesse ...") was shown
    obsession_weights,  \* dict interest -> weight, in tenths
    combos,             \* result of generate_combinations
    scored,             \* list of <<score, index into JOBS_DB>>
    hybrid,             \* result of infer_hybrid_jobs
    ran,                \* the steps the current run has executed
    job_tags,           \* argument of a direct call of score_job
    score,              \* result of a direct call of score_job
    last,               \* the weight changed since the direct call before
    best_jobs           \* argument of a direct call of infer_hybrid_jobs

vars == <<use_default, selected_defaults, custom_text, sliders, keys, pc,
          interests, info, obsession_weights, combos, scored, hybrid, ran,
          job_tags, score, last, best_jobs>>

-----------------------------------------------------------------------------
(* Bounds of the model. *)

\* How many of the options the user holds selected at once.
MaxSelected == 3
\* Keystrokes (a pasted word counts as one) typed into the text input.
MaxKeys == 4
\* Length of the item list handed to generate_combinations directly.
MaxItems == 4
\* Length of the user interest list handed to score_job directly.
MaxUser == 10
\* Length of the job list handed to infer_hybrid_jobs directly.
MaxBest == 6

-----------------------------------------------------------------------------
(* Generic helpers. *)

Range(s) == {s[k] : k \in DOMAIN s}

Max(a, b) == IF a >= b THEN a ELSE b

RECURSIVE GCD(_, _)
GCD(a, b) == IF b = 0 THEN a ELSE GCD(b, a % b)

\* The rational n/d (d > 0) in lowest terms.
Frac(n, d) ==
    LET g == GCD(IF n < 0 THEN -n ELSE n, d)
    IN  [n |-> n \div g, d |-> d \div g]

RPlus(x, y)  == Frac(x.n * y.d + y.n * x.d, x.d * y.d)
RMinus(x, y) == Frac(x.n * y.d - y.n * x.d, x.d * y.d)
RTimes(x, y) == Frac(x.n * y.n, x.d * y.d)
RLess(x, y)  == x.n * y.d < y.n * x.d
RLeq(x, y)   == x.n * y.d <= y.n * x.d
RMax(x, y)   == IF RLess(x, y) THEN y ELSE x
Zero == Frac(0, 1)
One  == Frac(1, 1)

\* true when p occurs in s as a contiguous run (Python's  p in s  on str).
IsSubstring(p, s) ==
    \E k \in 0..(Len(s) - Len(p)) :
        \A m \in 1..Len(p) : s[k + m] = p[m]

-----------------------------------------------------------------------------
(* The data model. *)

sport        == <<"s", "p", "o", "r", "t">>
tecnologia   == <<"t", "e", "c", "n", "o", "l", "o", "g", "i", "a">>
psicologia   == <<"p", "s", "i", "c", "o", "l", "o", "g", "i", "a">>
scrittura    == <<"s", "c", "r", "i", "t", "t", "u", "r", "a">>
musica       == <<"m", "u", "s", "i", "c", "a">>
design       == <<"d", "e", "s", "i", "g", "n">>
business     == <<"b", "u", "s", "i", "n", "e", "s", "s">>
analisi      == <<"a", "n", "a", "l", "i", "s", "i">>
creativita   == <<"c", "r", "e", "a", "t", "i", "v", "i", "t", "a">>
media        == <<"m", "e", "d", "i", "a">>
coaching     == <<"c", "o", "a", "c", "h", "i", "n", "g">>
insegnamento == <<"i", "n", "s", "e", "g", "n", "a", "m", "e", "n", "t", "o">>
viaggi       == <<"v", "i", "a", "g", "g", "i">>
numeri       == <<"n", "u", "m", "e", "r", "i">>
leadership   == <<"l", "e", "a", "d", "e", "r", "s", "h", "i", "p">>

SportsJournalist ==
    <<"S", "p", "o", "r", "t", "s", " ", "J", "o", "u", "r", "n", "a", "l",
      "i", "s", "t">>
UXDesigner == <<"U", "X", " ", "D", "e", "s", "i", "g", "n", "e", "r">>
DataAnalyst == <<"D", "a", "t", "a", " ", "A", "n", "a", "l", "y", "s", "t">>
ProductManagerSportTech ==
    <<"P", "r", "o", "d", "u", "c", "t", " ", "M", "a", "n", "a", "g", "e",
      "r", " ", "(", "S", "p", "o", "r", "t", "-", "T", "e", "c", "h", ")">>
ContentCreator ==
    <<"C", "o", "n", "t", "e", "n", "t", " ", "C", "r", "e", "a", "t", "o",
      "r">>
MentalCoachSportivo ==
    <<"M", "e", "n", "t", "a", "l", " ", "C", "o", "a", "c", "h", " ", "S",
      "p", "o", "r", "t", "i", "v", "o">>
GameDesigner ==
    <<"G", "a", "m", "e", " ", "D", "e", "s", "i", "g", "n", "e", "r">>
EducatoreOnline ==
    <<"E", "d", "u", "c", "a", "t", "o", "r", "e", " ", "O", "n", "l", "i",
      "n", "e">>
\* The literal of the third rule of infer_hybrid_jobs.
ProductManager ==
    <<"P", "r", "o", "d", "u", "c", "t", " ", "M", "a", "n", "a", "g", "e",
      "r">>

\* The catalog; "description" is only displayed and is left out.
JOBS_DB ==
    << [name |-> SportsJournalist, tags |-> {sport, scrittura, media}],
       [name |-> UXDesigner,
        tags |-> {design, psicologia, tecnologia, creativita}],
       [name |-> DataAnalyst,
        tags |-> {tecnologia, numeri, business, analisi}],
       [name |-> ProductManagerSportTech,
        tags |-> {sport, tecnologia, business, leadership}],
       [name |-> ContentCreator, tags |-> {scrittura, creativita, media}],
       [name |-> MentalCoachSportivo, tags |-> {sport, psicologia, coaching}],
       [name |-> GameDesigner,
        tags |-> {tecnologia, design, creativita, psicologia}],
       [name |-> EducatoreOnline,
        tags |-> {insegnamento, scrittura, media, tecnologia}] >>

DEFAULT_INTERESTS ==
    << sport, tecnologia, psicologia, scrittura, musica, design, business,
       analisi, creativita, media, coaching, insegnamento, viaggi, numeri,
       leadership >>

\* default= of the multiselect.
DefaultSelection == <<sport, tecnologia, scrittura>>


-----------------------------------------------------------------------------
(* Helpers of the script. *)

UpperChars == <<"A", "B", "C", "D", "E", "F", "G", "H", "I", "J", "K", "L",
                "M", "N", "O", "P", "Q", "R", "S", "T", "U", "V", "W", "X",
                "Y", "Z">>
LowerChars == <<"a", "b", "c", "d", "e", "f", "g", "h", "i", "j", "k", "l",
                "m", "n", "o", "p", "q", "r", "s", "t", "u", "v", "w", "x",
                "y", "z">>

\* str.lower() on one character.
LowerChar(c) ==
    IF \E k \in DOMAIN UpperChars : UpperChars[k] = c
    THEN LowerChars[CHOOSE k \in DOMAIN UpperChars : UpperChars[k] = c]
    ELSE c

lower(s) == [k \in DOMAIN s |-> LowerChar(s[k])]

IsSpace(c) == c \in {" ", "\t", "\n", "\r"}

RECURSIVE lstrip(_)
lstrip(s) ==
    IF s # <<>> /\ IsSpace(Head(s)) THEN lstrip(Tail(s)) ELSE s

RECURSIVE rstrip(_)
rstrip(s) ==
    IF s # <<>> /\ IsSpace(s[Len(s)])
    THEN rstrip(SubSeq(s, 1, Len(s) - 1))
    ELSE s

\* str.strip()
strip(s) == rstrip(lstrip(s))

\* str.split(","): the pieces between commas, empty ones included;
\* cur is the piece being read and acc the pieces already closed.
RECURSIVE SplitFrom(_, _, _)
SplitFrom(s, cur, acc) ==
    IF s = <<>> THEN Append(acc, cur)
    ELSE IF Head(s) = ","
         THEN SplitFrom(Tail(s), <<>>, Append(acc, cur))
         ELSE SplitFrom(Tail(s), Append(cur, Head(s)), acc)

split(text) == SplitFrom(text, <<>>, <<>>)

normalize_items(text) ==
    LET pieces == split(text)
        raw == [k \in DOMAIN pieces |-> lower(strip(pieces[k]))]
        NonEmpty(x) == x # <<>>
    IN  SelectSeq(raw, NonEmpty)

\* Mutant of FromKeys: every item is kept.
KeepAll(s, acc) == acc \o s

\* list(dict.fromkeys(s)): s without repetitions, first occurrences kept.
RECURSIVE FromKeys(_, _)
FromKeys(s, acc) ==
    IF s = <<>> THEN acc
    ELSE IF Head(s) \in Range(acc)
         THEN FromKeys(Tail(s), acc)
         ELSE FromKeys(Tail(s), Append(acc, Head(s)))

\* The merge of the selected options and the free text.
MergeInterests(selected, text) ==
    LET custom_items == IF text # <<>> THEN normalize_items(text) ELSE <<>>
    IN  FromKeys(selected \o custom_items, <<>>)

\* itertools.combinations over positions lo..n: the r-element position
\* tuples, each increasing, in lexicographic order.
RECURSIVE IndexCombinations(_, _, _)
IndexCombinations(lo, n, r) ==
    IF r = 0 THEN << <<>> >>
    ELSE IF n - lo + 1 < r THEN <<>>
    ELSE LET with == IndexCombinations(lo + 1, n, r - 1)
         IN  [k \in DOMAIN with |-> <<lo>> \o with[k]]
             \o IndexCombinations(lo + 1, n, r)

\* Mutant of combinations: the tuples of one length come last first.
combinations_reversed(items, r) ==
    LET idx == IndexCombinations(1, Len(items), r)
        n == Len(idx)
    IN  [k \in DOMAIN idx |->
            [m \in DOMAIN idx[n + 1 - k] |-> items[idx[n + 1 - k][m]]]]

\* itertools.combinations(items, r)
combinations(items, r) ==
    LET idx == IndexCombinations(1, Len(items), r)
    IN  [k \in DOMAIN idx |-> [m \in DOMAIN idx[k] |-> items[idx[k][m]]]]

\* The loop of generate_combinations over the lengths r..stop.
RECURSIVE CombosFrom(_, _, _)
CombosFrom(items, r, stop) ==
    IF r > stop THEN <<>>
    ELSE combinations(items, r) \o CombosFrom(items, r + 1, stop)

\* Mutant of generate_combinations: range(1, len(items)).
generate_combinations_short(items) == CombosFrom(items, 1, Len(items) - 1)

generate_combinations(items) == CombosFrom(items, 1, Len(items))

-----------------------------------------------------------------------------
(* Scoring, ranking and the hybrid suggestions. *)

\* obsession_weights.get(i, 1.0), in tenths.
WeightOf(weights, i) == IF i \in DOMAIN weights THEN weights[i] ELSE 10

\* Mutant of PenaltyTerm: the weight itself is charged, w * 0.05.
PenaltyTermFullWeight(w) == RTimes(Frac(w, 10), Frac(5, 100))

\* Mutant of PenaltyTerm: the difference is taken the wrong way round,
\* (1.0 - w) * 0.05.
PenaltyTermInverted(w) == RTimes(Frac(10 - w, 10), Frac(5, 100))

\* (w - 1.0) * 0.05, of a weight w in tenths.
PenaltyTerm(w) == RTimes(Frac(w - 10, 10), Frac(5, 100))

\* The penalty loop over the overlap: a term for every w > 1.0.
RECURSIVE PenaltyOver(_, _)
PenaltyOver(overlap, weights) ==
    IF overlap = {} THEN Zero
    ELSE LET i == CHOOSE x \in overlap : TRUE
             w == WeightOf(weights, i)
             rest == PenaltyOver(overlap \ {i}, weights)
         IN  IF w > 10
             THEN RPlus(rest, PenaltyTerm(w))
             ELSE rest

\* The anti-obsession penalty; an empty (or absent) dict gives none.
Penalty(overlap, weights) ==
    IF DOMAIN weights # {} THEN PenaltyOver(overlap, weights) ELSE Zero

\* 0.6 * precision + 0.4 * coverage of a non-empty overlap.
BaseScore(user_set, tags, overlap) ==
    LET coverage  == Frac(Cardinality(overlap), Max(1, Cardinality(user_set)))
        precision == Frac(Cardinality(overlap), Max(1, Cardinality(tags)))
    IN  RPlus(RTimes(Frac(6, 10), precision), RTimes(Frac(4, 10), coverage))

\* Mutant of Clamp: the difference is returned as it is.
NoClamp(base_score, penalty) == RMinus(base_score, penalty)

\* The last line of score_job.
Clamp(base_score, penalty) == RMax(Zero, RMinus(base_score, penalty))

score_job(user_interests, tags, weights) ==
    LET user_set == Range(user_interests)
        overlap  == user_set \cap tags
    IN  IF overlap = {} THEN Zero
        ELSE Clamp(BaseScore(user_set, tags, overlap),
                   Penalty(overlap, weights))

\* Mutant of Keeps: if s >= 0.
KeepsNonNegative(s) == RLeq(Zero, s)

\* if s > 0: of the ranking loop.
Keeps(s) == RLess(Zero, s)

\* The ranking loop over JOBS_DB[j..], appending to acc.
RECURSIVE ScoreLoop(_, _, _, _)
ScoreLoop(j, user_interests, weights, acc) ==
    IF j > Len(JOBS_DB) THEN acc
    ELSE LET s == score_job(user_interests, JOBS_DB[j].tags, weights)
         IN  ScoreLoop(j + 1, user_interests, weights,
                       IF Keeps(s) THEN Append(acc, <<s, j>>) ELSE acc)

\* Mutant of InsertDesc: e goes in front of the elements of equal key.
InsertDescBeforeEqual(s, e) ==
    LET ahead == {k \in DOMAIN s : RLess(e[1], s[k][1])}
        p == Cardinality(ahead)
    IN  SubSeq(s, 1, p) \o <<e>> \o SubSeq(s, p + 1, Len(s))

\* Where a stable descending sort puts e among the already sorted s:
\* behind every element whose key is not smaller.
InsertDesc(s, e) ==
    LET ahead == {k \in DOMAIN s : RLeq(e[1], s[k][1])}
        p == Cardinality(ahead)
    IN  SubSeq(s, 1, p) \o <<e>> \o SubSeq(s, p + 1, Len(s))

\* scored.sort(key=lambda x: x[0], reverse=True)
RECURSIVE SortDesc(_, _)
SortDesc(s, acc) ==
    IF s = <<>> THEN acc ELSE SortDesc(Tail(s), InsertDesc(acc, Head(s)))

\* The ranking pass.
RankJobs(user_interests, weights) ==
    SortDesc(ScoreLoop(1, user_interests, weights, <<>>), <<>>)

UXResearcher == "UX Researcher per app sportive (unisce sport + psicologia + design)"
DataStoryteller == "Data Storyteller (analisi dati + comunicazione)"
Founder == "Founder di micro-prodotto digitale basato sulle tue passioni"
\* The fallback; the accented a of "attivita" is written plain.
PortfolioCareer == "Portfolio career: combina 2-3 attivita part-time invece di un solo lavoro"

\* Mutant of FirstFive: the whole list is read.
WholeList(best) == best

\* best_jobs[:5]
FirstFive(best) == SubSeq(best, 1, IF Len(best) < 5 THEN Len(best) ELSE 5)

\* The third rule: any("Product Manager" in n for n in names).
AnyProductManager(names) ==
    \E k \in DOMAIN names : IsSubstring(ProductManager, names[k])

\* A job is given by its index into JOBS_DB.
infer_hybrid_jobs(best) ==
    LET top == FirstFive(best)
        names == [k \in DOMAIN top |-> JOBS_DB[top[k]].name]
        s1 == IF SportsJournalist \in Range(names) /\ UXDesigner \in Range(names)
              THEN <<UXResearcher>> ELSE <<>>
        s2 == IF DataAnalyst \in Range(names) /\ ContentCreator \in Range(names)
              THEN s1 \o <<DataStoryteller>> ELSE s1
        s3 == IF AnyProductManager(names) THEN s2 \o <<Founder>> ELSE s2
    IN  IF s3 = <<>> THEN <<PortfolioCareer>> ELSE s3

-----------------------------------------------------------------------------
(* The script: every interaction with a widget reruns it from the top. *)

\* The options the user clicks in the multiselect (of DEFAULT_INTERESTS).
Selectable == {sport, tecnologia, scrittura, psicologia, musica}

\* The texts the user enters in the text input: nothing, or
\* " Sport,, media ,MEDIA".
CustomTexts ==
    { <<>>,
      <<" ", "S", "p", "o", "r", "t", ",", ",", " ", "m", "e", "d", "i", "a",
        " ", ",", "M", "E", "D", "I", "A">> }

\* The slider positions the user sets, in tenths, of 1.0 to 3.0.
WeightValues == {10, 20, 30}

\* Value of the slider "Peso <i>": its widget state, or value=1.0.
SliderValue(state, i) == IF i \in DOMAIN state THEN state[i] ELSE 10

\* Mutant of ShouldStop: the guard is missing.
NeverStop(merged) == FALSE

\* if not interests:
ShouldStop(merged) == merged = <<>>

\* if scored: of the suggestions section.
ShouldSuggest(ranked) == ranked # <<>>

uiVars   == <<use_default, selected_defaults, custom_text>>
callVars == <<keys, job_tags, score, last, best_jobs>>

\* The state a run starts from: nothing of the previous run is kept.
StartRun ==
    /\ pc' = "merge"
    /\ interests' = <<>>
    /\ info' = FALSE
    /\ obsession_weights' = <<>>
    /\ combos' = <<>>
    /\ scored' = <<>>
    /\ hybrid' = <<>>
    /\ ran' = {}
    /\ UNCHANGED callVars

RunOver == pc \in {"done", "stopped"}

Init ==
    /\ use_default = TRUE
    /\ selected_defaults = DefaultSelection
    /\ custom_text = <<>>
    /\ sliders = <<>>
    /\ keys = 0
    /\ pc = "merge"
    /\ interests = <<>>
    /\ info = FALSE
    /\ obsession_weights = <<>>
    /\ combos = <<>>
    /\ scored = <<>>
    /\ hybrid = <<>>
    /\ ran = {}
    /\ job_tags = {}
    /\ score = Zero
    /\ last = <<>>
    /\ best_jobs = <<>>

\* The checkbox: unchecked, selected_defaults is []; checked again, the
\* multiselect is a new widget holding its default.
ToggleDefault ==
    /\ RunOver
    /\ use_default' = ~use_default
    /\ selected_defaults' = IF use_default THEN <<>> ELSE DefaultSelection
    /\ UNCHANGED <<custom_text, sliders>>
    /\ StartRun

SelectOption(i) ==
    /\ RunOver
    /\ use_default
    /\ i \notin Range(selected_defaults)
    /\ Len(selected_defaults) < MaxSelected
    /\ selected_defaults' = Append(selected_defaults, i)
    /\ UNCHANGED <<use_default, custom_text, sliders>>
    /\ StartRun

DeselectOption(k) ==
    /\ RunOver
    /\ use_default
    /\ k \in DOMAIN selected_defaults
    /\ selected_defaults' =
           SubSeq(selected_defaults, 1, k - 1)
           \o SubSeq(selected_defaults, k + 1, Len(selected_defaults))
    /\ UNCHANGED <<use_default, custom_text, sliders>>
    /\ StartRun

SetText(t) ==
    /\ RunOver
    /\ t # custom_text
    /\ custom_text' = t
    /\ UNCHANGED <<use_default, selected_defaults, sliders>>
    /\ StartRun

MoveSlider(i, w) ==
    /\ RunOver
    /\ i \in DOMAIN sliders
    /\ w # sliders[i]
    /\ sliders' = [sliders EXCEPT ![i] = w]
    /\ UNCHANGED uiVars
    /\ StartRun

\* Merge interests, and the st.stop() guard.
Merge ==
    /\ pc = "merge"
    /\ interests' = MergeInterests(selected_defaults, custom_text)
    /\ IF ShouldStop(interests')
       THEN /\ info' = TRUE
            /\ pc' = "stopped"
            /\ sliders' = <<>>
       ELSE /\ info' = FALSE
            /\ pc' = "weights"
            /\ sliders' = sliders
    /\ UNCHANGED <<uiVars, callVars, obsession_weights, combos, scored,
                   hybrid, ran>>

\* Anti-obsession weights: one slider per interest.
BuildWeights ==
    /\ pc = "weights"
    /\ obsession_weights' =
           [i \in Range(interests) |-> SliderValue(sliders, i)]
    /\ sliders' = obsession_weights'
    /\ ran' = ran \cup {"weights"}
    /\ pc' = "combos"
    /\ UNCHANGED <<uiVars, callVars, interests, info, combos, scored, hybrid>>

\* LEVEL 1: combos = generate_combinations(interests)
Combine ==
    /\ pc = "combos"
    /\ combos' = generate_combinations(interests)
    /\ ran' = ran \cup {"combos"}
    /\ pc' = "rank"
    /\ UNCHANGED <<uiVars, callVars, sliders, interests, info,
                   obsession_weights, scored, hybrid>>

\* LEVEL 2: ranking jobs.
Rank ==
    /\ pc = "rank"
    /\ scored' = RankJobs(interests, obsession_weights)
    /\ ran' = ran \cup {"rank"}
    /\ pc' = "suggest"
    /\ UNCHANGED <<uiVars, callVars, sliders, interests, info,
                   obsession_weights, combos, hybrid>>

\* LEVEL 3: the suggestions, only of a non-empty ranking.
Suggest ==
    /\ pc = "suggest"
    /\ IF ShouldSuggest(scored)
       THEN /\ hybrid' = infer_hybrid_jobs([k \in DOMAIN scored |-> scored[k][2]])
            /\ ran' = ran \cup {"hybrid"}
       ELSE UNCHANGED <<hybrid, ran>>
    /\ pc' = "done"
    /\ UNCHANGED <<uiVars, callVars, sliders, interests, info,
                   obsession_weights, combos, scored>>

Next ==
    \/ ToggleDefault
    \/ \E i \in Selectable : SelectOption(i)
    \/ \E k \in 1..MaxSelected : DeselectOption(k)
    \/ \E t \in CustomTexts : SetText(t)
    \/ \E i \in DOMAIN sliders, w \in WeightValues : MoveSlider(i, w)
    \/ Merge
    \/ BuildWeights
    \/ Combine
    \/ Rank
    \/ Suggest

Spec == Init /\ [][Next]_vars

-----------------------------------------------------------------------------
(* score_job called directly, on interest lists and tag sets drawn from    *)
(* DEFAULT_INTERESTS, with one weight moved between two calls.             *)

\* The first u entries of DEFAULT_INTERESTS.
Prefix(u) == SubSeq(DEFAULT_INTERESTS, 1, u)

\* The entries a..b of DEFAULT_INTERESTS, as a tag set.
Window(a, b) == {DEFAULT_INTERESTS[k] : k \in a..b}

TagSets ==
    {Window(a, b) : a \in 1..Len(DEFAULT_INTERESTS),
                    b \in 0..Len(DEFAULT_INTERESTS)}

\* The weights of the direct calls, in tenths.
ScoreWeights == {10, 11, 20, 30}

\* No dict (None), or one with the same weight for every interest.
WeightMaps(user_interests) ==
    {<<>>} \cup {[i \in Range(user_interests) |-> w] : w \in ScoreWeights}

InitScore ==
    /\ interests \in {Prefix(u) : u \in 0..MaxUser}
    /\ job_tags \in TagSets
    /\ obsession_weights \in WeightMaps(interests)
    /\ pc = "call"
    /\ score = Zero
    /\ last = <<>>
    /\ use_default = TRUE
    /\ selected_defaults = <<>>
    /\ custom_text = <<>>
    /\ sliders = <<>>
    /\ keys = 0
    /\ info = FALSE
    /\ combos = <<>>
    /\ scored = <<>>
    /\ hybrid = <<>>
    /\ ran = {}
    /\ best_jobs = <<>>

parkedScore ==
    <<use_default, selected_defaults, custom_text, sliders, keys, info,
      combos, scored, hybrid, ran, best_jobs>>

ScoreCall ==
    /\ pc = "call"
    /\ score' = score_job(interests, job_tags, obsession_weights)
    /\ pc' = "returned"
    /\ UNCHANGED <<interests, job_tags, obsession_weights, last, parkedScore>>

\* One weight is changed and score_job is called again; last keeps the
\* interest, its weight and the score of the call before.
Reweigh(i, w) ==
    /\ pc = "returned"
    /\ last = <<>>
    /\ i \in DOMAIN obsession_weights
    /\ w # obsession_weights[i]
    /\ obsession_weights' = [obsession_weights EXCEPT ![i] = w]
    /\ score' = score_job(interests, job_tags, obsession_weights')
    /\ last' = [i |-> i, w |-> obsession_weights[i], s |-> score]
    /\ UNCHANGED <<interests, job_tags, pc, parkedScore>>

NextScore ==
    \/ ScoreCall
    \/ \E i \in DOMAIN obsession_weights, w \in ScoreWeights : Reweigh(i, w)

SpecScore == InitScore /\ [][NextScore]_vars

Overlap == Range(interests) \cap job_tags

(* C1 as claimed: a returned score is in [0.0, 1.0], and it is 0.0 if and  *)
(* only if the overlap of the user interests and the job tags is empty.    *)
C1_ZeroIffNoOverlap ==
    pc = "returned" =>
        /\ RLeq(Zero, score) /\ RLeq(score, One)
        /\ (score = Zero <=> Overlap = {})

(* C1 amended: a returned score is in [0.0, 1.0]; it is 0.0 whenever the   *)
(* overlap is empty; with a non-empty overlap it is 0.0 exactly when the   *)
(* penalty is at least the base score, and then the job has more than 6    *)
(* tags.                                                                   *)
C1_RangeAndZero ==
    pc = "returned" =>
        /\ RLeq(Zero, score) /\ RLeq(score, One)
        /\ (Overlap = {} => score = Zero)
        /\ (Overlap # {} =>
              /\ (score = Zero <=>
                    RLeq(BaseScore(Range(interests), job_tags, Overlap),
                         Penalty(Overlap, obsession_weights)))
              /\ (score = Zero => Cardinality(job_tags) > 6))

(* C1 witness: a call with a non-empty overlap, a job of at most 6 tags,   *)
(* every weight at 3.0, and a score strictly between 0 and 1.              *)
C1_Witness ==
    /\ pc = "returned"
    /\ Overlap # {}
    /\ Cardinality(job_tags) <= 6
    /\ Cardinality(Overlap) >= 3
    /\ \A i \in Overlap : WeightOf(obsession_weights, i) = 30
    /\ RLess(Zero, score) /\ RLess(score, One)

(* C6: raising one weight that already exceeds 1.0, all else fixed, never  *)
(* raises the score.                                                       *)
C6_NonIncreasing ==
    (pc = "returned" /\ last # <<>>) =>
        ((10 < last.w /\ last.w <= obsession_weights[last.i])
            => RLeq(score, last.s))

(* C6 witness: a weight of an overlapping interest went from 2.0 to 3.0    *)
(* and the score fell.                                                     *)
C6_Witness ==
    /\ pc = "returned"
    /\ last # <<>>
    /\ last.w = 20
    /\ obsession_weights[last.i] = 30
    /\ last.i \in Overlap
    /\ RLess(score, last.s)

-----------------------------------------------------------------------------
(* generate_combinations called directly on a list of unique items.        *)

\* The items the lists are made of.
ItemPool == Range(Prefix(5))

parkedComb ==
    <<use_default, selected_defaults, custom_text, sliders, keys, info,
      obsession_weights, scored, hybrid, ran, job_tags, score, last,
      best_jobs>>

InitComb ==
    /\ interests = <<>>
    /\ combos = <<>>
    /\ pc = "items"
    /\ use_default = TRUE
    /\ selected_defaults = <<>>
    /\ custom_text = <<>>
    /\ sliders = <<>>
    /\ keys = 0
    /\ info = FALSE
    /\ obsession_weights = <<>>
    /\ scored = <<>>
    /\ hybrid = <<>>
    /\ ran = {}
    /\ job_tags = {}
    /\ score = Zero
    /\ last = <<>>
    /\ best_jobs = <<>>

AddItem(i) ==
    /\ pc = "items"
    /\ i \notin Range(interests)
    /\ Len(interests) < MaxItems
    /\ interests' = Append(interests, i)
    /\ UNCHANGED <<combos, pc, parkedComb>>

Generate ==
    /\ pc = "items"
    /\ combos' = generate_combinations(interests)
    /\ pc' = "returned"
    /\ UNCHANGED <<interests, parkedComb>>

NextComb ==
    \/ \E i \in ItemPool : AddItem(i)
    \/ Generate

SpecComb == InitComb /\ [][NextComb]_vars

RECURSIVE Pow2(_)
Pow2(n) == IF n = 0 THEN 1 ELSE 2 * Pow2(n - 1)

(* C2: of N >= 1 unique items, generate_combinations returns 2^N - 1       *)
(* tuples, each of length 1..N, no two of them equal.                      *)
C2_CountLengthsDistinct ==
    (pc = "returned" /\ Len(interests) >= 1) =>
        /\ Len(combos) = Pow2(Len(interests)) - 1
        /\ \A k \in DOMAIN combos : Len(combos[k]) \in 1..Len(interests)
        /\ \A p, q \in DOMAIN combos : p # q => combos[p] # combos[q]

(* C2 witness: three items gave seven tuples.                              *)
C2_Witness ==
    /\ pc = "returned"
    /\ Len(interests) = 3
    /\ Len(combos) = 7

\* Where item x stands in the input list.
PositionOf(x) == CHOOSE k \in DOMAIN interests : interests[k] = x

Positions(c) == [m \in DOMAIN c |-> PositionOf(c[m])]

\* a before b in lexicographic order, for tuples of one length.
LexLess(a, b) ==
    \E m \in DOMAIN a :
        /\ a[m] < b[m]
        /\ \A l \in 1..(m - 1) : a[l] = b[l]

(* C9: the tuples come by length ascending and, within one length, in      *)
(* lexicographic order of the input positions they choose; each tuple      *)
(* keeps the input order of its elements.                                  *)
C9_LengthThenLexOrder ==
    pc = "returned" =>
        /\ \A k \in DOMAIN combos :
              \A m \in 1..(Len(combos[k]) - 1) :
                  PositionOf(combos[k][m]) < PositionOf(combos[k][m + 1])
        /\ \A p, q \in DOMAIN combos :
              p < q =>
                 \/ Len(combos[p]) < Len(combos[q])
                 \/ /\ Len(combos[p]) = Len(combos[q])
                    /\ LexLess(Positions(combos[p]), Positions(combos[q]))

(* C9 witness: of [tecnologia, sport, psicologia] the fourth and fifth     *)
(* tuples are (tecnologia, sport) and (tecnologia, psicologia).            *)
C9_Witness ==
    /\ pc = "returned"
    /\ interests = <<tecnologia, sport, psicologia>>
    /\ combos[4] = <<tecnologia, sport>>
    /\ combos[5] = <<tecnologia, psicologia>>
    /\ combos[7] = interests

-----------------------------------------------------------------------------
(* The interest merge on typed text.                                       *)

\* The keys the user types, and the word the user pastes ("Sport").
TypedChars == {"a", "A", " ", ","}
PastedWords == { <<"S", "p", "o", "r", "t">> }

\* The selections the text is merged with.
NormSelections == { <<>>, <<sport>>, DefaultSelection }

parkedNorm ==
    <<use_default, sliders, info, obsession_weights, combos, scored, hybrid,
      ran, job_tags, score, last, best_jobs>>

InitNorm ==
    /\ selected_defaults \in NormSelections
    /\ custom_text = <<>>
    /\ keys = 0
    /\ interests = <<>>
    /\ pc = "typing"
    /\ use_default = TRUE
    /\ sliders = <<>>
    /\ info = FALSE
    /\ obsession_weights = <<>>
    /\ combos = <<>>
    /\ scored = <<>>
    /\ hybrid = <<>>
    /\ ran = {}
    /\ job_tags = {}
    /\ score = Zero
    /\ last = <<>>
    /\ best_jobs = <<>>

TypeChar(c) ==
    /\ pc = "typing"
    /\ keys < MaxKeys
    /\ custom_text' = Append(custom_text, c)
    /\ keys' = keys + 1
    /\ UNCHANGED <<selected_defaults, interests, pc, parkedNorm>>

PasteWord(w) ==
    /\ pc = "typing"
    /\ keys < MaxKeys
    /\ custom_text' = custom_text \o w
    /\ keys' = keys + 1
    /\ UNCHANGED <<selected_defaults, interests, pc, parkedNorm>>

Normalize ==
    /\ pc = "typing"
    /\ interests' = MergeInterests(selected_defaults, custom_text)
    /\ pc' = "merged"
    /\ UNCHANGED <<selected_defaults, custom_text, keys, parkedNorm>>

NextNorm ==
    \/ \E c \in TypedChars : TypeChar(c)
    \/ \E w \in PastedWords : PasteWord(w)
    \/ Normalize

SpecNorm == InitNorm /\ [][NextNorm]_vars

\* ",".join(items)
RECURSIVE Join(_)
Join(items) ==
    IF items = <<>> THEN <<>>
    ELSE IF Len(items) = 1 THEN Head(items)
    ELSE Head(items) \o <<",">> \o Join(Tail(items))

(* C10: the merged list has no duplicates, and merging it again, either    *)
(* joined with commas as the free text or as the pre-selected list, gives  *)
(* the same list in the same order.                                        *)
C10_MergeIdempotent ==
    pc = "merged" =>
        /\ \A p, q \in DOMAIN interests : p # q => interests[p] # interests[q]
        /\ MergeInterests(<<>>, Join(interests)) = interests
        /\ MergeInterests(interests, <<>>) = interests

(* C10 witness: [sport] merged with "Sport, A" is [sport, a].              *)
C10_Witness ==
    /\ pc = "merged"
    /\ selected_defaults = <<sport>>
    /\ custom_text = <<"S", "p", "o", "r", "t", ",", " ", "A">>
    /\ interests = <<sport, <<"a">> >>

-----------------------------------------------------------------------------
(* infer_hybrid_jobs called directly on a list of distinct catalog jobs.   *)

parkedHybrid ==
    <<use_default, selected_defaults, custom_text, sliders, keys, interests,
      info, obsession_weights, combos, scored, ran, job_tags, score, last>>

InitHybrid ==
    /\ best_jobs = <<>>
    /\ hybrid = <<>>
    /\ pc = "jobs"
    /\ use_default = TRUE
    /\ selected_defaults = <<>>
    /\ custom_text = <<>>
    /\ sliders = <<>>
    /\ keys = 0
    /\ interests = <<>>
    /\ info = FALSE
    /\ obsession_weights = <<>>
    /\ combos = <<>>
    /\ scored = <<>>
    /\ ran = {}
    /\ job_tags = {}
    /\ score = Zero
    /\ last = <<>>

PushJob(j) ==
    /\ pc = "jobs"
    /\ j \notin Range(best_jobs)
    /\ Len(best_jobs) < MaxBest
    /\ best_jobs' = Append(best_jobs, j)
    /\ UNCHANGED <<hybrid, pc, parkedHybrid>>

Infer ==
    /\ pc = "jobs"
    /\ hybrid' = infer_hybrid_jobs(best_jobs)
    /\ pc' = "returned"
    /\ UNCHANGED <<best_jobs, parkedHybrid>>

NextHybrid ==
    \/ \E j \in DOMAIN JOBS_DB : PushJob(j)
    \/ Infer

SpecHybrid == InitHybrid /\ [][NextHybrid]_vars

\* Job j of the catalog is among the first five of best_jobs.
InTopFive(j) == \E k \in DOMAIN best_jobs : k <= 5 /\ best_jobs[k] = j

\* The conditions of the three rules, on catalog indexes.
Rule1Holds == InTopFive(1) /\ InTopFive(2)
Rule2Holds == InTopFive(3) /\ InTopFive(5)
Rule3Holds == InTopFive(4)

\* The place of a suggestion in the order the rules are declared.
DeclarationRank(s) ==
    CASE s = UXResearcher -> 1
      [] s = DataStoryteller -> 2
      [] s = Founder -> 3
      [] OTHER -> 4

(* C8: the result holds the suggestion of each rule whose condition holds  *)
(* on the first five names and of no other rule, in declaration order; the *)
(* fallback is returned, alone, exactly when no rule's condition holds.    *)
C8_RulesOnTopFive ==
    pc = "returned" =>
        /\ UXResearcher \in Range(hybrid) <=> Rule1Holds
        /\ DataStoryteller \in Range(hybrid) <=> Rule2Holds
        /\ Founder \in Range(hybrid) <=> Rule3Holds
        /\ PortfolioCareer \in Range(hybrid)
              <=> ~(Rule1Holds \/ Rule2Holds \/ Rule3Holds)
        /\ PortfolioCareer \in Range(hybrid) => hybrid = <<PortfolioCareer>>
        /\ Range(hybrid) \subseteq
              {UXResearcher, DataStoryteller, Founder, PortfolioCareer}
        /\ \A p, q \in DOMAIN hybrid :
              p < q => DeclarationRank(hybrid[p]) < DeclarationRank(hybrid[q])

(* C8 witness: Product Manager (Sport-Tech) in sixth place fires no rule,  *)
(* and the fallback alone is returned.                                     *)
C8_Witness ==
    /\ pc = "returned"
    /\ Len(best_jobs) = 6
    /\ best_jobs[6] = 4
    /\ hybrid = <<PortfolioCareer>>

-----------------------------------------------------------------------------
(* Claims about the script run (Spec).                                     *)

\* The score score_job gives job j on the run's interests and weights.
ScoreOfJob(j) == score_job(interests, JOBS_DB[j].tags, obsession_weights)

Ranked(j) == \E k \in DOMAIN scored : scored[k][2] = j

(* C3: after the ranking pass no ranked job has score 0.0, and every job   *)
(* whose tags share nothing with the interests scores 0.0 and is not       *)
(* ranked; a job is ranked, with its score, exactly when it scores above 0.*)
C3_NoZeroScoreRanked ==
    "rank" \in ran =>
        /\ \A k \in DOMAIN scored :
              /\ scored[k][1] # Zero
              /\ scored[k][1] = ScoreOfJob(scored[k][2])
        /\ \A j \in DOMAIN JOBS_DB :
              /\ (JOBS_DB[j].tags \cap Range(interests) = {}
                    => ScoreOfJob(j) = Zero /\ ~Ranked(j))
              /\ (Ranked(j) <=> ScoreOfJob(j) # Zero)

(* C3 witness: a ranking under a raised weight that holds some jobs and    *)
(* leaves out a job without overlap.                                       *)
C3_Witness ==
    /\ "rank" \in ran
    /\ scored # <<>>
    /\ \E i \in DOMAIN obsession_weights : obsession_weights[i] = 30
    /\ \E j \in DOMAIN JOBS_DB :
          JOBS_DB[j].tags \cap Range(interests) = {} /\ ~Ranked(j)

(* C4: the ranked list is in descending order of score, and jobs of equal  *)
(* score stand in catalog order.                                           *)
C4_SortedDescStable ==
    "rank" \in ran =>
        \A p, q \in DOMAIN scored :
            p < q =>
               /\ RLeq(scored[q][1], scored[p][1])
               /\ (scored[p][1] = scored[q][1] => scored[p][2] < scored[q][2])

(* C4 witness: a ranking with two jobs of equal score below a job of       *)
(* higher score that stands later in the catalog.                          *)
C4_Witness ==
    /\ "rank" \in ran
    /\ \E p, q \in DOMAIN scored : p < q /\ scored[p][1] = scored[q][1]
    /\ \E p, q \in DOMAIN scored :
          p < q /\ RLess(scored[q][1], scored[p][1])
                /\ scored[q][2] < scored[p][2]

AllSteps == {"weights", "combos", "rank", "hybrid"}

\* An empty merge stops the run: the message is shown and no step runs.
StopsOnNoInput ==
    (pc # "merge" /\ interests = <<>>) =>
        /\ pc = "stopped"
        /\ info
        /\ ran = {}
        /\ obsession_weights = <<>>
        /\ combos = <<>>
        /\ scored = <<>>
        /\ hybrid = <<>>

SportRaised ==
    /\ pc = "done"
    /\ Range(interests) = {sport, tecnologia, scrittura}
    /\ obsession_weights =
          [i \in Range(interests) |-> IF i = sport THEN 30 ELSE 10]

(* C7: with interests {sport, tecnologia, scrittura}, sport at 3.0 and the *)
(* other weights at 1.0, every catalog job tagged sport is ranked with its *)
(* unweighted score less exactly 0.10.                                     *)
C7_SportPenaltyExact ==
    SportRaised =>
        \A j \in DOMAIN JOBS_DB :
            sport \in JOBS_DB[j].tags =>
                LET unweighted ==
                        score_job(interests, JOBS_DB[j].tags,
                                  [i \in Range(interests) |-> 10])
                IN  \E k \in DOMAIN scored :
                        /\ scored[k][2] = j
                        /\ scored[k][1] = RMinus(unweighted, Frac(1, 10))
                        /\ RLess(scored[k][1], unweighted)

(* C7 witness: in that run Sports Journalist is ranked at 17/30, which is  *)
(* 2/3 less 0.10.                                                          *)
C7_Witness ==
    /\ SportRaised
    /\ \E k \in DOMAIN scored : scored[k] = <<Frac(17, 30), 1>>

=============================================================================
